---------------------------- MODULE Spec2Model ----------------------------
(***************************************************************************)
(* Gitlab2Graph: the object-graph mapping (g2g/models.py), the six         *)
(* pipelines (g2g/pipelines.py), the configuration and the orchestrator    *)
(* (g2g/helpers.py) and the command line (gitlab2graph.py).                *)
(*                                                                         *)
(* The graph sink is py2neo/Neo4j.  What the model takes from py2neo:      *)
(*   - Graph.create(GraphObject) runs GraphObject.__db_create__, which is  *)
(*     __db_merge__: MERGE on (primary label, primary key), then SET of    *)
(*     the object's properties;                                            *)
(*   - a Property descriptor writes node[key], and a value of None removes *)
(*     the key (PropertyDict);                                             *)
(*   - RelatedObjects.update(obj) puts obj in the in-memory related list   *)
(*     (loaded from the sink on first use), also when obj is None;         *)
(*   - Graph.push(obj) runs in one transaction: node properties, then for  *)
(*     every touched relationship tx.merge(related) (TypeError for None),  *)
(*     removal of edges not listed and MERGE of each listed edge; an error *)
(*     rolls the whole push back;                                          *)
(*   - NodeMatcher.match with no label matches nodes of any label;         *)
(*   - a relationship declared without a type gets relationship_case of    *)
(*     its attribute name (has_label -> HAS_LABEL).                        *)
(* The source is GitLab, read through python-gitlab.  What the model takes  *)
(* from python-gitlab: list(all=True) returns the whole listing, list()    *)
(* with no argument its first page, per_page entries at most.              *)
(* Strings that the code inspects (names, branches) are sequences of       *)
(* one-character strings.  An optional value is <<>> (None) or <<v>>.      *)
(***************************************************************************)
EXTENDS Integers, Sequences, FiniteSets, Bags, TLC

VARIABLES
    nodes,        \* the sink's nodes: sequence of [label, props]; index = identity
    edges,        \* the sink's relationships: bag of <<start, type, end>>
    constraints,  \* registered uniqueness constraints: set of <<label, key>>
    hist,         \* the sink after each commit_data so far (repository level:
                  \* the class and the last calls made), newest last
    src,          \* the source API's data of the project (unchanged over the runs)
    argv,         \* the configuration files named on the command line
    cfg,          \* the optional pipeline sections of the configuration
    run,          \* number of process_pipelines runs (configuration files) started
    pc,           \* position of the orchestrator: [phase, i]
    pipes,        \* the pipeline instances built in this run
    calls,        \* the calls made on the pipelines in this run, in order
    err,          \* the exception that ended this run, "none" if none
    uuid,         \* number of uuid4 values drawn
    miss          \* a match(...).first() of this run returned None and was linked

orch == <<src, argv, cfg, run, pc, pipes, calls, err, uuid, miss>>

vars == <<nodes, edges, constraints, hist, src, argv, cfg, run, pc, pipes, calls,
          err, uuid, miss>>

(***************************************************************************)
(* Bounds of the model.                                                    *)
(***************************************************************************)
MaxKey == 2       \* primary-key values 1..MaxKey at repository level
MaxOps == 3       \* repository calls per behaviour of RepoSpec
MaxRuns == 2      \* runs of process_pipelines per behaviour of Spec
MaxFiles == 2     \* configuration files on the command line of MainSpec

(***************************************************************************)
(* Optional values and ordered attribute dictionaries.                     *)
(***************************************************************************)
None == <<>>

Some(v) == <<v>>

\* attributes: a sequence of <<key, optional value>>, keys distinct, in dict order
HasKey(attributes, key) ==
    \E i \in 1..Len(attributes) : attributes[i][1] = key

\* dict.get(key): the optional value, None when the key is absent
Get(attributes, key) ==
    IF HasKey(attributes, key)
    THEN attributes[CHOOSE i \in 1..Len(attributes) : attributes[i][1] = key][2]
    ELSE None

\* {key: value, **attributes}: attributes' own entry for key wins, in first place
DictWithFirst(key, value, attributes) ==
    IF HasKey(attributes, key)
    THEN <<<<key, Get(attributes, key)>>>> \o
         SelectSeq(attributes, LAMBDA e : e[1] # key)
    ELSE <<<<key, value>>>> \o attributes

(***************************************************************************)
(* Entity schema (g2g/models.py).                                          *)
(***************************************************************************)
Types == {"Project", "User", "Label", "Milestone", "Note", "Issue",
          "MergeRequest", "Commit", "AwardEmoji", "Change"}

primarykey(cls) == "id"

unique_constraints(cls) ==
    CASE cls = "User" -> <<"id", "username">>
      [] cls = "Milestone" -> <<"id", "iid">>
      [] cls = "Issue" -> <<"id", "iid">>
      [] cls = "MergeRequest" -> <<"id", "iid">>
      [] cls = "Commit" -> <<"id", "short_id">>
      [] OTHER -> <<"id">>

\* the attributes declared with Property(...)
ScalarAttrs(cls) ==
    CASE cls = "Project" ->
           {"id", "name", "description", "default_branch", "created_at",
            "last_activity_at", "namespace_name"}
      [] cls = "User" -> {"id", "name", "username", "state"}
      [] cls = "Label" ->
           {"id", "name", "color", "description", "open_merge_requests_count",
            "open_issues_requests_count", "closed_issues_requests_count",
            "is_project_label"}
      [] cls = "Milestone" ->
           {"id", "iid", "title", "description", "state", "created_at",
            "updated_at", "due_date", "start_date"}
      [] cls = "Note" ->
           {"id", "type", "body", "attachment", "system", "resolvable",
            "created_at", "updated_at"}
      [] cls = "Issue" ->
           {"id", "iid", "title", "description", "state", "weight",
            "merge_requests_count", "created_at", "updated_at", "closed_at",
            "confidential", "due_date", "upvotes", "downvotes", "has_tasks",
            "task_status", "task_count", "task_completed"}
      [] cls = "MergeRequest" ->
           {"id", "iid", "title", "state", "description", "work_in_progress",
            "merge_when_pipeline_succeeds", "force_remove_source_branch",
            "should_remove_source_branch", "merge_status", "sha",
            "merge_commit_sha", "reference", "squash",
            "approvals_before_merge", "approvals_required", "approvals_left",
            "approved", "created_at", "updated_at", "merged_at", "closed_at",
            "target_branch", "source_branch", "user_notes_count", "upvotes",
            "downvotes", "task_count", "task_completed", "changes_count",
            "merge_error"}
      [] cls = "Commit" ->
           {"id", "short_id", "title", "message", "created_at", "author_name",
            "author_email", "authored_date", "committer_name",
            "committer_email", "committed_date"}
      [] cls = "AwardEmoji" ->
           {"id", "name", "title", "message", "created_at", "updated_at"}
      [] OTHER ->
           {"id", "old_path", "new_path", "a_mode", "b_mode", "new_file",
            "renamed_file", "deleted_file", "diff"}

\* the key of the Property(...) an attribute is declared with
PropertyKey(cls, attr) ==
    CASE cls \in {"Issue", "MergeRequest"} /\ attr = "closed_at" -> "updated_at"
      [] cls = "AwardEmoji" /\ attr = "updated_at" -> "created_at"
      [] OTHER -> attr

\* the attributes declared with RelatedTo(...) / RelatedFrom(...)
RelatedAttrs(cls) ==
    CASE cls = "Project" ->
           {"has_milestone", "has_issue", "has_member", "has_merge", "has_note"}
      [] cls = "User" ->
           {"belongs_to", "is_author", "is_merge_author", "was_issue_assigned",
            "was_merge_assigned", "is_issue_assigned", "is_merge_assigned",
            "closed_issue", "closed_merge", "merged_by", "commit_author",
            "committer", "note_author", "awarded_emoji", "approved_merge"}
      [] cls = "Label" -> {"belongs_to", "is_annotated", "is_merge_annotated"}
      [] cls = "Milestone" -> {"belongs_to", "is_annotated", "is_merge_annotated"}
      [] cls = "Note" ->
           {"has_author", "at_issue", "at_merge", "belongs_to", "was_awarded_with"}
      [] cls = "Issue" ->
           {"has_label", "has_milestone", "belongs_to", "created_by",
            "was_assigned", "is_assigned", "closed_by", "is_merge_annotated",
            "has_note", "was_awarded_with"}
      [] cls = "MergeRequest" ->
           {"belongs_to", "has_label", "has_milestone", "created_by",
            "is_assigned", "was_assigned", "closed_by", "merged_by",
            "is_related", "has_merge_commit", "is_latest_commit", "has_note",
            "was_awarded_with", "approved_by", "has_change"}
      [] cls = "Commit" ->
           {"belongs_to", "is_author", "is_committer", "has_parent",
            "is_parent", "is_merge_commit", "is_latest_commit"}
      [] cls = "AwardEmoji" ->
           {"was_awarded_by", "was_awarded_to_note", "was_awarded_to_issue",
            "was_awarded_to_merge"}
      [] OTHER -> {"changed_in_merge"}

(***************************************************************************)
(* The sink: nodes and their properties.                                   *)
(***************************************************************************)
\* node[key] = value of a PropertyDict: None removes the key
SetProperty(props, key, value) ==
    IF value = None
    THEN [k \in DOMAIN props \ {key} |-> props[k]]
    ELSE [k \in DOMAIN props \cup {key} |-> IF k = key THEN value[1] ELSE props[k]]

NoProps == [k \in {} |-> 0]

\* identities of the nodes with the label whose property key has the value
Matching(ns, label, key, v) ==
    {i \in 1..Len(ns) : /\ ns[i].label = label
                        /\ key \in DOMAIN ns[i].props
                        /\ ns[i].props[key] = v}

\* first() of a match: the node with the lowest identity, 0 for none
First(ids) == IF ids = {} THEN 0 ELSE CHOOSE i \in ids : \A j \in ids : i <= j

\* a plain CREATE of a new node
AppendNode(ns, label, key, props) ==
    [nodes |-> Append(ns, [label |-> label, props |-> props]),
     id |-> Len(ns) + 1]

\* a sink that writes every object it is given as a new node
MergeNode_create(ns, label, key, props) == AppendNode(ns, label, key, props)

\* Graph.create(obj) of an unbound GraphObject: MERGE on (label, key), SET props
MergeNode(ns, label, key, props) ==
    LET found == Matching(ns, label, key, props[key])
    IN  IF found = {}
        THEN AppendNode(ns, label, key, props)
        ELSE [nodes |-> [i \in 1..Len(ns) |->
                            IF i \in found
                            THEN [label |-> label, props |-> props]
                            ELSE ns[i]],
              id |-> First(found)]

(***************************************************************************)
(* Graph repository (NeoGraphObject).  A call returns                      *)
(* [exc, nodes, obj]: the exception raised ("none" if none), the sink's    *)
(* nodes afterwards, and the identity of the returned object (0: None).    *)
(***************************************************************************)
\* the value of an expression handed on in a loop is computed before the
\* next round of the loop starts, as in Python
Evaluated(v) == v = v

RECURSIVE SetAttrs(_, _, _, _)
\* the loop of create over attributes.items(), from entry i on
SetAttrs(cls, attributes, i, props) ==
    IF Evaluated(props) /\ i > Len(attributes) THEN props
    ELSE LET attr == attributes[i][1]
             attr_value == attributes[i][2]
         IN  SetAttrs(cls, attributes, i + 1,
                 IF attr \in ScalarAttrs(cls)
                 THEN SetProperty(props, PropertyKey(cls, attr), attr_value)
                 ELSE props)

\* graph.create(obj); return obj
Created(m) == [exc |-> "none", nodes |-> m.nodes, obj |-> m.id]

\* a create that does not look for the primary key in the record
create_unchecked(cls, ns, attributes) ==
    Created(AppendNode(ns, cls, primarykey(cls), SetAttrs(cls, attributes, 1, NoProps)))

create(cls, ns, attributes) ==
    IF ~HasKey(attributes, primarykey(cls))
    THEN [exc |-> "NeoGraphObjectException", nodes |-> ns, obj |-> 0]
    ELSE Created(MergeNode(ns, cls, primarykey(cls),
                           SetAttrs(cls, attributes, 1, NoProps)))

\* a get that filters on iid whatever the key
get_by_iid(cls, ns, key, v) == First(Matching(ns, cls, "iid", v))

\* get with one filter: match on the class label, where key = value, first()
get(cls, ns, key, v) == First(Matching(ns, cls, key, v))

get_or_create(cls, ns, pk, attributes) ==
    IF pk = None
    THEN [exc |-> "NeoGraphObjectException", nodes |-> ns, obj |-> 0]
    ELSE LET obj == get(cls, ns, primarykey(cls), pk[1])
         IN  IF obj = 0
             THEN create(cls, ns,
                         IF attributes # None
                         THEN DictWithFirst(primarykey(cls), pk, attributes[1])
                         ELSE <<<<primarykey(cls), pk>>>>)
             ELSE [exc |-> "none", nodes |-> ns, obj |-> obj]

(***************************************************************************)
(* Strings the code inspects, as sequences of one-character strings.       *)
(***************************************************************************)
Digits == <<"0", "1", "2", "3", "4", "5", "6", "7", "8", "9">>

IsDigit(ch) == \E d \in 1..Len(Digits) : Digits[d] = ch

DigitValue(ch) == (CHOOSE d \in 1..Len(Digits) : Digits[d] = ch) - 1

RECURSIVE int(_)
\* int(text) of a text of digits
int(text) ==
    IF text = <<>> THEN 0
    ELSE 10 * int(SubSeq(text, 1, Len(text) - 1)) + DigitValue(text[Len(text)])

\* length of the longest prefix of digits
DigitPrefix(text) ==
    CHOOSE k \in 0..Len(text) :
        /\ \A j \in 1..k : IsDigit(text[j])
        /\ k < Len(text) => ~IsDigit(text[k + 1])

\* a pattern that asks for no character after the hyphen
match_branch_open(text) ==
    LET k == DigitPrefix(text)
    IN  IF k >= 1 /\ Len(text) >= k + 1 /\ text[k + 1] = "-"
        THEN Some(SubSeq(text, 1, k))
        ELSE None

\* re.match(r"^(\d+)-.+$", text): group(1) as an optional value.  \d+ is
\* greedy and a digit is no hyphen, so only the longest digit prefix can match.
\* (Branch names hold no line break, the one character "." does not match.)
match_branch(text) ==
    LET k == DigitPrefix(text)
    IN  IF k >= 1 /\ Len(text) >= k + 2 /\ text[k + 1] = "-"
        THEN Some(SubSeq(text, 1, k))
        ELSE None

\* Cypher's CONTAINS (name__contains): sub occurs in text
Contains(text, sub) ==
    \E i \in 0..(Len(text) - Len(sub)) : SubSeq(text, i + 1, i + Len(sub)) = sub

IsSpace(ch) == ch = " "

\* str.split(): the whitespace-separated tokens, as their <<first, last>> positions
Tokens(text) ==
    {t \in (1..Len(text)) \X (1..Len(text)) :
        /\ t[1] <= t[2]
        /\ \A j \in t[1]..t[2] : ~IsSpace(text[j])
        /\ t[1] > 1 => IsSpace(text[t[1] - 1])
        /\ t[2] < Len(text) => IsSpace(text[t[2] + 1])}

\* split()[-1]: the last token, None (an IndexError) when there is no token
LastToken(text) ==
    IF Tokens(text) = {} THEN None
    ELSE LET t == CHOOSE t \in Tokens(text) : \A o \in Tokens(text) : o[2] <= t[2]
         IN  Some(SubSeq(text, t[1], t[2]))

(***************************************************************************)
(* In-memory graph objects and their relationships (py2neo.ogm).           *)
(* A pipeline step works on a context c = [nodes, edges, exc, miss, uuid]  *)
(* and, where it builds an object, on st = [c, obj].                       *)
(***************************************************************************)
Raise(c, e) == [c EXCEPT !.exc = e]

NoRel == [a \in {} |-> {}]

\* the GraphObject of a node of the sink
Wrap(c, id) == [node |-> id, props |-> c.nodes[id].props, rel |-> NoRel]

\* relationship_case of the attribute a RelatedTo(...) is declared as
RelType(attr) ==
    CASE attr = "belongs_to" -> "BELONGS_TO"
      [] attr = "created_by" -> "CREATED_BY"
      [] attr = "was_assigned" -> "WAS_ASSIGNED"
      [] attr = "is_assigned" -> "IS_ASSIGNED"
      [] attr = "closed_by" -> "CLOSED_BY"
      [] attr = "merged_by" -> "MERGED_BY"
      [] attr = "approved_by" -> "APPROVED_BY"
      [] attr = "has_label" -> "HAS_LABEL"
      [] attr = "has_milestone" -> "HAS_MILESTONE"
      [] attr = "has_note" -> "HAS_NOTE"
      [] attr = "has_author" -> "HAS_AUTHOR"
      [] attr = "was_awarded_with" -> "WAS_AWARDED_WITH"
      [] attr = "was_awarded_by" -> "WAS_AWARDED_BY"
      [] attr = "has_change" -> "HAS_CHANGE"
      [] attr = "has_merge_commit" -> "HAS_MERGE_COMMIT"
      [] attr = "is_latest_commit" -> "IS_LATEST_COMMIT"
      [] attr = "is_related" -> "IS_RELATED"
      [] attr = "is_author" -> "IS_AUTHOR"
      [] attr = "is_committer" -> "IS_COMMITTER"
      [] OTHER -> "HAS_PARENT"

\* the ends of the node's outgoing relationships of a type in the sink
Related(es, node, type) ==
    {e[3] : e \in {e \in DOMAIN es : e[1] = node /\ e[2] = type}}

\* RelatedObjects.update(target) / add(target): the related list is loaded
\* from the sink on first use; the target joins it, also when it is None (0)
update(c, obj, attr, target) ==
    LET loaded == IF attr \in DOMAIN obj.rel THEN obj.rel[attr]
                  ELSE Related(c.edges, obj.node, RelType(attr))
    IN  [obj EXCEPT !.rel = [a \in DOMAIN obj.rel \cup {attr} |->
                                IF a = attr THEN loaded \cup {target}
                                ELSE obj.rel[a]]]

\* a CREATE of the relationship: one more beside an existing one
MergeEdge_create(es, e) == IF e \in DOMAIN es THEN es[e] + 1 ELSE 1

\* MERGE of one relationship: an existing one is kept as it is
MergeEdge(es, e) == IF e \in DOMAIN es THEN es[e] ELSE 1

\* Graph.push(obj): one transaction; tx.merge(None) raises TypeError
push(c, obj) ==
    IF c.exc # "none" THEN c
    ELSE IF \E a \in DOMAIN obj.rel : 0 \in obj.rel[a] THEN Raise(c, "TypeError")
    ELSE LET types == {RelType(a) : a \in DOMAIN obj.rel}
             listed == UNION {{<<obj.node, RelType(a), b>> : b \in obj.rel[a]} :
                              a \in DOMAIN obj.rel}
             kept == {e \in DOMAIN c.edges :
                         ~(e[1] = obj.node /\ e[2] \in types /\ e \notin listed)}
         IN  [c EXCEPT !.nodes[obj.node].props = obj.props,
                       !.edges = [e \in kept \cup listed |->
                                     IF e \in listed THEN MergeEdge(c.edges, e)
                                     ELSE c.edges[e]]]

\* the context after a repository call that returned r
Returned(c, r) == [c EXCEPT !.nodes = r.nodes, !.exc = r.exc]

\* the object a repository call returned, as the step's object
Bound(c, r) ==
    [c |-> Returned(c, r),
     obj |-> IF r.exc = "none" THEN Wrap(Returned(c, r), r.obj) ELSE 0]

\* cls.create(graph, attributes), the object becoming the step's object
CreateStep(cls, c, attributes) == Bound(c, create(cls, c.nodes, attributes))

\* the identity a repository call returned
Identified(c, r) == [c |-> Returned(c, r), id |-> r.obj]

\* cls.get_or_create(graph, pk, attributes), returning [c, id]
GetOrCreateStep(cls, c, pk, attributes) ==
    Identified(c, get_or_create(cls, c.nodes, pk, attributes))

\* ref = x.get(field); if ref: owner.<attr>.update(User.match(graph, ref['id']).first())
MatchUser(st, attr, ref) ==
    IF st.c.exc # "none" \/ ref = None THEN st
    ELSE LET u == get("User", st.c.nodes, primarykey("User"), ref[1])
         IN  [c |-> [st.c EXCEPT !.miss = @ \/ u = 0],
              obj |-> update(st.c, st.obj, attr, u)]

RECURSIVE MatchUsers(_, _, _, _)
\* for assignee in issue.attributes.get('assignees'), from entry i on
MatchUsers(st, attr, seq, i) ==
    IF st.c.exc # "none" \/ i > Len(seq) THEN st
    ELSE MatchUsers(MatchUser(st, attr, Some(seq[i])), attr, seq, i + 1)

\* owner.<attr>.update(x) for the object x of g = [c, id], unless g.c holds
\* an exception
Linked(st, attr, g) ==
    [c |-> g.c,
     obj |-> IF g.c.exc = "none" THEN update(g.c, st.obj, attr, g.id) ELSE st.obj]

\* ref = x.get(field); if ref: owner.<attr>.update(User.get_or_create(graph, pk=ref['id']))
GetOrCreateUser(st, attr, ref) ==
    IF st.c.exc # "none" \/ ref = None THEN st
    ELSE Linked(st, attr, GetOrCreateStep("User", st.c, ref, None))

RECURSIVE GetOrCreateUsers(_, _, _, _)
\* for assignee / approver of a merge request, from entry i on
GetOrCreateUsers(st, attr, seq, i) ==
    IF st.c.exc # "none" \/ i > Len(seq) THEN st
    ELSE GetOrCreateUsers(GetOrCreateUser(st, attr, Some(seq[i])), attr, seq, i + 1)

\* graph.push(x) of the step's object x
Pushed(st) == push(st.c, st.obj)

\* the step on the object of g = [c, id]
Opened(g) == [c |-> g.c, obj |-> Wrap(g.c, g.id)]

\* the length of a page of a listing when the call names none
per_page == 20

\* <owner>.notes.list(), <owner>.awardemojis.list(): the first page of the
\* listing the source holds
list(objects) ==
    SubSeq(objects, 1, IF Len(objects) < per_page THEN Len(objects) ELSE per_page)

\* the award emoji g = [c, id] once got or created: its user, its push, and
\* its link from the owner
AwardEmojiGot(st, award_emoji, g) ==
    IF g.c.exc # "none" THEN [st EXCEPT !.c = g.c]
    ELSE Linked(st, "was_awarded_with",
                [c |-> Pushed(MatchUser(Opened(g), "was_awarded_by",
                                        Get(award_emoji.attributes, "user"))),
                 id |-> g.id])

\* one award emoji of a note, an issue or a merge request (st.obj)
AwardEmojiStep(st, award_emoji) ==
    IF st.c.exc # "none" THEN st
    ELSE AwardEmojiGot(st, award_emoji,
                       GetOrCreateStep("AwardEmoji", st.c, award_emoji.id,
                                       Some(award_emoji.attributes)))

RECURSIVE AwardEmojis(_, _, _)
\* for award_emoji in <owner>.awardemojis.list(), from entry i on
AwardEmojis(st, seq, i) ==
    IF st.c.exc # "none" \/ i > Len(seq) THEN st
    ELSE AwardEmojis(AwardEmojiStep(st, seq[i]), seq, i + 1)

\* the note g = [c, id] once got or created: its author, its award emojis,
\* its push, and its link from the owner
NoteGot(st, note, g) ==
    IF g.c.exc # "none" THEN [st EXCEPT !.c = g.c]
    ELSE Linked(st, "has_note",
                [c |-> Pushed(AwardEmojis(MatchUser(Opened(g), "has_author",
                                                    Get(note.attributes, "author")),
                                          list(note.awardemojis), 1)),
                 id |-> g.id])

\* one note of an issue or a merge request (st.obj)
NoteStep(st, note) ==
    IF st.c.exc # "none" THEN st
    ELSE NoteGot(st, note,
                 GetOrCreateStep("Note", st.c, note.id, Some(note.attributes)))

RECURSIVE Notes(_, _, _)
\* for note in <owner>.notes.list(), from entry i on
Notes(st, seq, i) ==
    IF st.c.exc # "none" \/ i > Len(seq) THEN st
    ELSE Notes(NoteStep(st, seq[i]), seq, i + 1)

\* obj.<attr> = value, kept in memory until the object is pushed
SetAttr(st, cls, attr, value) ==
    IF st.c.exc # "none" THEN st
    ELSE [st EXCEPT !.obj.props = SetProperty(@, PropertyKey(cls, attr), value)]

\* model_list.append(obj)
AppendModel(model_list, st) ==
    IF st.c.exc = "none" THEN Append(model_list, st.obj) ELSE model_list

(***************************************************************************)
(* The pipelines (g2g/pipelines.py).  transform_data works on              *)
(* acc = [c, model_list]; a record after an exception is not reached.      *)
(***************************************************************************)
PIPELINES == <<"UserPipeline", "LabelPipeline", "MilestonePipeline",
               "IssuePipeline", "MergeRequestPipeline", "CommitPipeline">>

\* the letters of the words the class names are made of
Letters(word) ==
    CASE word = "Pipeline" -> <<"P", "i", "p", "e", "l", "i", "n", "e">>
      [] word = "Project" -> <<"P", "r", "o", "j", "e", "c", "t">>
      [] word = "User" -> <<"U", "s", "e", "r">>
      [] word = "Label" -> <<"L", "a", "b", "e", "l">>
      [] word = "Milestone" -> <<"M", "i", "l", "e", "s", "t", "o", "n", "e">>
      [] word = "Note" -> <<"N", "o", "t", "e">>
      [] word = "Issue" -> <<"I", "s", "s", "u", "e">>
      [] word = "MergeRequest" ->
           <<"M", "e", "r", "g", "e", "R", "e", "q", "u", "e", "s", "t">>
      [] word = "Commit" -> <<"C", "o", "m", "m", "i", "t">>
      [] word = "AwardEmoji" -> <<"A", "w", "a", "r", "d", "E", "m", "o", "j", "i">>
      [] word = "Change" -> <<"C", "h", "a", "n", "g", "e">>

\* type(self).__name__ of a pipeline class, letter by letter
ClassName(full_name) ==
    CASE full_name = "Pipeline" -> Letters("Pipeline")
      [] full_name = "UserPipeline" -> Letters("User") \o Letters("Pipeline")
      [] full_name = "LabelPipeline" -> Letters("Label") \o Letters("Pipeline")
      [] full_name = "MilestonePipeline" ->
           Letters("Milestone") \o Letters("Pipeline")
      [] full_name = "IssuePipeline" -> Letters("Issue") \o Letters("Pipeline")
      [] full_name = "MergeRequestPipeline" ->
           Letters("MergeRequest") \o Letters("Pipeline")
      [] full_name = "CommitPipeline" -> Letters("Commit") \o Letters("Pipeline")

RECURSIVE SplitFrom(_, _, _)
\* str.split(sep) on the rest of a text, part being the letters read since
\* the last separator
SplitFrom(text, sep, part) ==
    IF text = <<>> THEN <<part>>
    ELSE IF Len(text) >= Len(sep) /\ SubSeq(text, 1, Len(sep)) = sep
    THEN <<part>> \o SplitFrom(SubSeq(text, Len(sep) + 1, Len(text)), sep, <<>>)
    ELSE SplitFrom(Tail(text), sep, Append(part, Head(text)))

\* Pipeline.name: name, _ = self._name.split("Pipeline"); anything but two
\* parts cannot be unpacked
name(full_name) ==
    IF Len(SplitFrom(ClassName(full_name), Letters("Pipeline"), <<>>)) = 2
    THEN [exc |-> "none",
          name |-> SplitFrom(ClassName(full_name), Letters("Pipeline"), <<>>)[1]]
    ELSE [exc |-> "ValueError", name |-> <<>>]

\* dict[key] = value
SetItem(attributes, key, value) ==
    IF HasKey(attributes, key)
    THEN [i \in 1..Len(attributes) |->
             IF attributes[i][1] = key THEN <<key, value>> ELSE attributes[i]]
    ELSE Append(attributes, <<key, value>>)

\* for x in d.get(field): a field of None cannot be iterated
Iterable(st, field) ==
    IF st.c.exc # "none" THEN st
    ELSE IF field = None THEN [st EXCEPT !.c = Raise(@, "TypeError")]
    ELSE st

\* the entries the loop over d.get(field) visits
Items(field) == IF field = None THEN <<>> ELSE field[1]

\* Pipeline._init_project: the Project node is written with create
init_project(c, project) ==
    CreateStep("Project", c,
               IF HasKey(project, "namespace")
               THEN SetItem(project, "namespace", Get(project, "namespace")[1].name)
               ELSE project)

\* cls.set_constraints(graph) of Pipeline._add_constraints
set_constraints(cons, cls) ==
    cons \cup {<<cls, unique_constraints(cls)[k]>> :
                 k \in 1..Len(unique_constraints(cls))}

\* Pipeline._add_constraints: getattr(models, self.name), an AttributeError
\* when the module has no class of that name, then cls.set_constraints(graph);
\* r = [c, constraints]
add_constraints(c, cons, full_name) ==
    IF c.exc # "none" THEN [c |-> c, constraints |-> cons]
    ELSE IF name(full_name).exc # "none"
    THEN [c |-> Raise(c, name(full_name).exc), constraints |-> cons]
    ELSE IF \A cls \in Types : Letters(cls) # name(full_name).name
    THEN [c |-> Raise(c, "AttributeError"), constraints |-> cons]
    ELSE [c |-> c,
          constraints |->
              set_constraints(cons, CHOOSE cls \in Types :
                                        Letters(cls) = name(full_name).name)]

\* self.model_list.append(model) at the end of a record's loop body
Appended(acc, st) == [c |-> st.c, model_list |-> AppendModel(acc.model_list, st)]

\* user_model.belongs_to.update(self.project_model)
BelongsToStep(st, project_model) ==
    IF st.c.exc # "none" THEN st
    ELSE [st EXCEPT !.obj = update(st.c, st.obj, "belongs_to", project_model)]

\* one user of UserPipeline.transform_data
UserModel(acc, project_model, user) ==
    IF acc.c.exc # "none" THEN acc
    ELSE Appended(acc, BelongsToStep(CreateStep("User", acc.c, user), project_model))

RECURSIVE UserModels(_, _, _, _)
\* for user in self.users, from entry i on
UserModels(acc, project_model, seq, i) ==
    IF acc.c.exc # "none" \/ i > Len(seq) THEN acc
    ELSE UserModels(UserModel(acc, project_model, seq[i]), project_model, seq, i + 1)

UserPipeline_transform_data(c, pipe) ==
    UserModels([c |-> c, model_list |-> pipe.model_list], pipe.project_model,
               pipe.data[1], 1)

\* one record of MilestonePipeline or LabelPipeline: create and append
PlainModel(acc, cls, record) ==
    IF acc.c.exc # "none" THEN acc
    ELSE Appended(acc, CreateStep(cls, acc.c, record))

RECURSIVE PlainModels(_, _, _, _)
\* for milestone in self.milestones / for label in self.labels, from entry i on
PlainModels(acc, cls, seq, i) ==
    IF acc.c.exc # "none" \/ i > Len(seq) THEN acc
    ELSE PlainModels(PlainModel(acc, cls, seq[i]), cls, seq, i + 1)

\* MilestonePipeline and LabelPipeline
PlainPipeline_transform_data(cls, c, pipe) ==
    PlainModels([c |-> c, model_list |-> pipe.model_list], cls, pipe.data[1], 1)

\* Cypher's =~ on a label name; the label names of the model hold no regular
\* expression operator and no quote, so the pattern matches its own text only
regex_match(text, pattern) == text = pattern

\* IssuePipeline: Label.match(graph).where("_.name =~ '<label_name>'")
IssueLabelStep(st, label_name) ==
    IF st.c.exc # "none" THEN st
    ELSE LET lbl_match == {i \in 1..Len(st.c.nodes) :
                              /\ st.c.nodes[i].label = "Label"
                              /\ "name" \in DOMAIN st.c.nodes[i].props
                              /\ regex_match(st.c.nodes[i].props["name"], label_name)}
         IN  IF lbl_match # {}
             THEN [st EXCEPT !.obj = update(st.c, st.obj, "has_label", First(lbl_match))]
             ELSE st

RECURSIVE IssueLabels(_, _, _)
\* for label_name in issue.attributes.get('labels'), from entry i on
IssueLabels(st, seq, i) ==
    IF st.c.exc # "none" \/ i > Len(seq) THEN st
    ELSE IssueLabels(IssueLabelStep(st, seq[i]), seq, i + 1)

\* task_count / task_completed from task_completion_status
TaskStatusStep(st, cls, task_status) ==
    IF st.c.exc # "none" THEN st
    ELSE IF task_status = None THEN [st EXCEPT !.c = Raise(@, "AttributeError")]
    ELSE SetAttr(SetAttr(st, cls, "task_count", task_status[1].task_count),
                 cls, "task_completed", task_status[1].completed_count)

\* milestone = Milestone.get(graph, {'id': ...}) if issue.get('milestone')
\* else None; if milestone: issue_model.has_milestone.update(milestone)
IssueMilestoneStep(st, ref) ==
    IF st.c.exc # "none" \/ ref = None THEN st
    ELSE LET milestone == get("Milestone", st.c.nodes, primarykey("Milestone"), ref[1])
         IN  IF milestone # 0
             THEN [st EXCEPT !.obj = update(st.c, st.obj, "has_milestone", milestone)]
             ELSE st

\* if issue['has_tasks']: the two task counters
IssueTasksStep(st, a) ==
    IF Get(a, "has_tasks") = Some(TRUE)
    THEN TaskStatusStep(st, "Issue", Get(a, "task_completion_status"))
    ELSE st

\* the k-th statement of the loop body of IssuePipeline.transform_data after
\* the create of the issue model (st.obj)
IssueStatement(st, issue, k) ==
    CASE k = 1 -> MatchUser(st, "created_by", Get(issue.attributes, "author"))
      [] k = 2 -> MatchUsers(Iterable(st, Get(issue.attributes, "assignees")),
                             "was_assigned",
                             Items(Get(issue.attributes, "assignees")), 1)
      [] k = 3 -> MatchUser(st, "is_assigned", Get(issue.attributes, "assignee"))
      [] k = 4 -> MatchUser(st, "closed_by", Get(issue.attributes, "closed_by"))
      [] k = 5 -> IssueLabels(Iterable(st, Get(issue.attributes, "labels")),
                              Items(Get(issue.attributes, "labels")), 1)
      [] k = 6 -> IssueMilestoneStep(st, Get(issue.attributes, "milestone"))
      [] k = 7 -> IssueTasksStep(st, issue.attributes)
      [] k = 8 -> Notes(st, list(issue.notes), 1)
      [] k = 9 -> AwardEmojis(st, list(issue.awardemojis), 1)
      [] OTHER -> st

RECURSIVE IssueStatements(_, _, _)
\* the statements of the loop body from the k-th on; an exception ends them
IssueStatements(st, issue, k) ==
    IF st.c.exc # "none" \/ k > 9 THEN st
    ELSE IssueStatements(IssueStatement(st, issue, k), issue, k + 1)

IssueRecord(acc, issue) ==
    IF acc.c.exc # "none" THEN acc
    ELSE Appended(acc, IssueStatements(CreateStep("Issue", acc.c, issue.attributes),
                                       issue, 1))

RECURSIVE IssueRecords(_, _, _)
\* for issue in self.issues, from entry i on
IssueRecords(acc, seq, i) ==
    IF acc.c.exc # "none" \/ i > Len(seq) THEN acc
    ELSE IssueRecords(IssueRecord(acc, seq[i]), seq, i + 1)

IssuePipeline_transform_data(c, pipe) ==
    IssueRecords([c |-> c, model_list |-> pipe.model_list], pipe.data[1], 1)

\* MergeRequestPipeline: Label.get(graph, {'name': label_name})
MergeLabelStep(st, label_name) ==
    IF st.c.exc # "none" THEN st
    ELSE LET lbl == get("Label", st.c.nodes, "name", label_name)
         IN  IF lbl # 0
             THEN [st EXCEPT !.obj = update(st.c, st.obj, "has_label", lbl)]
             ELSE st

RECURSIVE MergeLabels(_, _, _)
\* for label_name in merge_request.attributes.get('labels'), from entry i on
MergeLabels(st, seq, i) ==
    IF st.c.exc # "none" \/ i > Len(seq) THEN st
    ELSE MergeLabels(MergeLabelStep(st, seq[i]), seq, i + 1)

\* the change s1 = [c, obj] once created: its link from the merge request
\* and its push
ChangeCreated(st, s1) ==
    IF s1.c.exc # "none" THEN [st EXCEPT !.c = s1.c]
    ELSE [c |-> push(s1.c, s1.obj),
          obj |-> update(s1.c, st.obj, "has_change", s1.obj.node)]

\* a change keyed by its old path instead of a token of its own
ChangeStep_by_path(st, change) ==
    IF st.c.exc # "none" THEN st
    ELSE ChangeCreated(st, CreateStep("Change", [st.c EXCEPT !.uuid = @ + 1],
                                      SetItem(change, "id", Get(change, "old_path"))))

\* change['id'] = str(uuid.uuid4()): the n-th token drawn is n, no two alike
ChangeStep(st, change) ==
    IF st.c.exc # "none" THEN st
    ELSE ChangeCreated(st, CreateStep("Change", [st.c EXCEPT !.uuid = @ + 1],
                                      SetItem(change, "id", Some(st.c.uuid + 1))))

RECURSIVE Changes(_, _, _)
\* for change in changes['changes'], from entry i on
Changes(st, seq, i) ==
    IF st.c.exc # "none" \/ i > Len(seq) THEN st
    ELSE Changes(ChangeStep(st, seq[i]), seq, i + 1)

\* x = d.get(field); if x: owner.<attr>.update(cls.get_or_create(graph, pk=x))
GetOrCreateRef(st, cls, attr, ref) ==
    IF st.c.exc # "none" \/ ref = None THEN st
    ELSE Linked(st, attr, GetOrCreateStep(cls, st.c, ref, None))

\* the issue named by the source branch
BranchIssueStep(st) ==
    IF st.c.exc # "none" THEN st
    ELSE IF "source_branch" \notin DOMAIN st.obj.props
    THEN [st EXCEPT !.c = Raise(@, "TypeError")]
    ELSE LET m == match_branch(st.obj.props["source_branch"])
             issue == IF m = None THEN 0
                      ELSE get("Issue", st.c.nodes, "iid", int(m[1]))
         IN  IF issue # 0
             THEN [st EXCEPT !.obj = update(st.c, st.obj, "is_related", issue)]
             ELSE st

\* if merge_request.get('task_completion_status'): the two task counters
MergeTasksStep(st, a) ==
    IF Get(a, "task_completion_status") # None
    THEN TaskStatusStep(st, "MergeRequest", Get(a, "task_completion_status"))
    ELSE st

\* the k-th statement of the loop body of MergeRequestPipeline.transform_data
\* after the create of the merge request model (st.obj)
MergeRequestStatement(st, merge_request, k) ==
    CASE k = 1 -> GetOrCreateUser(st, "created_by",
                                  Get(merge_request.attributes, "author"))
      [] k = 2 -> GetOrCreateUser(st, "merged_by",
                                  Get(merge_request.attributes, "merged_by"))
      [] k = 3 -> GetOrCreateUsers(
                      Iterable(st, Get(merge_request.attributes, "assignees")),
                      "was_assigned",
                      Items(Get(merge_request.attributes, "assignees")), 1)
      [] k = 4 -> MatchUser(st, "is_assigned",
                            Get(merge_request.attributes, "assignee"))
      [] k = 5 -> GetOrCreateUser(st, "closed_by",
                                  Get(merge_request.attributes, "closed_by"))
      [] k = 6 -> MergeLabels(Iterable(st, Get(merge_request.attributes, "labels")),
                              Items(Get(merge_request.attributes, "labels")), 1)
      [] k = 7 -> GetOrCreateUsers(
                      Iterable(st, Get(merge_request.approvals, "approved_by")),
                      "approved_by",
                      Items(Get(merge_request.approvals, "approved_by")), 1)
      [] k = 8 -> SetAttr(st, "MergeRequest", "approvals_required",
                          Get(merge_request.approvals, "approvals_required"))
      [] k = 9 -> SetAttr(st, "MergeRequest", "approvals_left",
                          Get(merge_request.approvals, "approvals_left"))
      [] k = 10 -> SetAttr(st, "MergeRequest", "approved",
                           Get(merge_request.approvals, "approved"))
      [] k = 11 -> SetAttr(st, "MergeRequest", "changes_count",
                           merge_request.changes.changes_count)
      [] k = 12 -> SetAttr(st, "MergeRequest", "merge_error",
                           merge_request.changes.merge_error)
      [] k = 13 -> Changes(st, merge_request.changes.changes, 1)
      [] k = 14 -> GetOrCreateRef(st, "Milestone", "has_milestone",
                                  Get(merge_request.attributes, "milestone"))
      [] k = 15 -> GetOrCreateRef(st, "Commit", "has_merge_commit",
                                  Get(merge_request.attributes, "merge_commit_sha"))
      [] k = 16 -> GetOrCreateRef(st, "Commit", "is_latest_commit",
                                  Get(merge_request.attributes, "sha"))
      [] k = 17 -> BranchIssueStep(st)
      [] k = 18 -> MergeTasksStep(st, merge_request.attributes)
      [] k = 19 -> Notes(st, list(merge_request.notes), 1)
      [] k = 20 -> AwardEmojis(st, list(merge_request.awardemojis), 1)
      [] OTHER -> st

RECURSIVE MergeRequestStatements(_, _, _)
\* the statements of the loop body from the k-th on; an exception ends them
MergeRequestStatements(st, merge_request, k) ==
    IF st.c.exc # "none" \/ k > 20 THEN st
    ELSE MergeRequestStatements(MergeRequestStatement(st, merge_request, k),
                                merge_request, k + 1)

MergeRequestRecord(acc, merge_request) ==
    IF acc.c.exc # "none" THEN acc
    ELSE Appended(acc, MergeRequestStatements(
                           CreateStep("MergeRequest", acc.c, merge_request.attributes),
                           merge_request, 1))

RECURSIVE MergeRequestRecords(_, _, _)
\* for merge_request in self.merge_requests, from entry i on
MergeRequestRecords(acc, seq, i) ==
    IF acc.c.exc # "none" \/ i > Len(seq) THEN acc
    ELSE MergeRequestRecords(MergeRequestRecord(acc, seq[i]), seq, i + 1)

MergeRequestPipeline_transform_data(c, pipe) ==
    MergeRequestRecords([c |-> c, model_list |-> pipe.model_list], pipe.data[1], 1)

\* NeoGraphObject.find(matcher, name__contains=text): a match on no label
find(ns, text) ==
    First({i \in 1..Len(ns) : /\ "name" \in DOMAIN ns[i].props
                              /\ Contains(ns[i].props["name"], text)})

\* CommitPipeline._find_user: [exc, id], id = 0 for None
find_user(ns, user_name) ==
    IF user_name = None THEN [exc |-> "none", id |-> 0]
    ELSE LET node == find(ns, user_name[1])
         IN  IF node # 0 THEN [exc |-> "none", id |-> node]
             ELSE IF LastToken(user_name[1]) = None
             THEN [exc |-> "IndexError", id |-> 0]
             ELSE [exc |-> "none", id |-> find(ns, LastToken(user_name[1])[1])]

\* if x: commit_model.<attr>.update(x), for the result f = [exc, id] of
\* _find_user
Found(st, attr, f) ==
    IF f.exc # "none" THEN [st EXCEPT !.c = Raise(@, f.exc)]
    ELSE IF f.id # 0 THEN [st EXCEPT !.obj = update(st.c, st.obj, attr, f.id)]
    ELSE st

\* x = self._find_user(name); if x: commit_model.<attr>.update(x)
FindUserStep(st, attr, user_name) ==
    IF st.c.exc # "none" THEN st
    ELSE Found(st, attr, find_user(st.c.nodes, user_name))

RECURSIVE Parents(_, _, _)
\* for parent_commit_id in commit.attributes.get('parent_ids'), from entry i on
Parents(st, seq, i) ==
    IF st.c.exc # "none" \/ i > Len(seq) THEN st
    ELSE Parents(GetOrCreateRef(st, "Commit", "has_parent", Some(seq[i])), seq, i + 1)

CommitRecord(acc, commit) ==
    IF acc.c.exc # "none" THEN acc
    ELSE LET s1 == CreateStep("Commit", acc.c, commit)
             s2 == FindUserStep(s1, "is_author", Get(commit, "author_name"))
             s3 == FindUserStep(s2, "is_committer", Get(commit, "committer_name"))
             s4 == Parents(Iterable(s3, Get(commit, "parent_ids")),
                           Items(Get(commit, "parent_ids")), 1)
         IN  Appended(acc, s4)

RECURSIVE CommitRecords(_, _, _)
\* for commit in self.commits, from entry i on
CommitRecords(acc, seq, i) ==
    IF acc.c.exc # "none" \/ i > Len(seq) THEN acc
    ELSE CommitRecords(CommitRecord(acc, seq[i]), seq, i + 1)

CommitPipeline_transform_data(c, pipe) ==
    CommitRecords([c |-> c, model_list |-> pipe.model_list], pipe.data[1], 1)

RECURSIVE PushModels(_, _, _)
\* for model in self.<name>_model_list: self.graph.push(model), from entry i on
PushModels(c, seq, i) ==
    IF c.exc # "none" \/ i > Len(seq) THEN c
    ELSE PushModels(push(c, seq[i]), seq, i + 1)

\* commit_data of every pipeline: push each model of the list, in order
commit_data(c, pipe) == PushModels(c, pipe.model_list, 1)

(***************************************************************************)
(* The source API's data: records as the GitLab API lists them.            *)
(***************************************************************************)
JaneDoe == <<"J", " ", "D">>

ProjectRecord ==
    <<<<"id", Some(1)>>, <<"name", Some(<<"p">>)>>,
      <<"namespace", Some([name |-> Some(<<"g">>)])>>,
      <<"created_at", Some("t1")>>>>

UserRecord(id, user_name, username) ==
    <<<<"id", Some(id)>>, <<"name", Some(user_name)>>,
      <<"username", Some(username)>>, <<"state", Some("active")>>,
      <<"web_url", Some("w")>>>>

LabelRecord(id, label_name) ==
    <<<<"id", Some(id)>>, <<"name", Some(label_name)>>, <<"color", Some("red")>>>>

MilestoneRecord(id, iid) ==
    <<<<"id", Some(id)>>, <<"iid", Some(iid)>>, <<"title", Some("m")>>>>

AwardEmojiRecord(id, user) ==
    [id |-> Some(id),
     attributes |-> <<<<"id", Some(id)>>, <<"name", Some(<<"t">>)>>,
                      <<"user", user>>, <<"created_at", Some("t1")>>,
                      <<"updated_at", Some("t2")>>>>]

NoteRecord(id, author, awardemojis) ==
    [id |-> Some(id),
     attributes |-> <<<<"id", Some(id)>>, <<"body", Some("n")>>,
                      <<"author", author>>, <<"system", Some(FALSE)>>>>,
     awardemojis |-> awardemojis]

TaskCompletionStatus == Some([task_count |-> Some(2), completed_count |-> Some(1)])

IssueRecordOf(id, iid, author, assignees, assignee, closed_by, labels, milestone, has_tasks, notes, awardemojis) ==
    [attributes |-> <<<<"id", Some(id)>>, <<"iid", Some(iid)>>,
                      <<"title", Some("i")>>, <<"state", Some("opened")>>,
                      <<"updated_at", Some("t2")>>,
                      <<"closed_at", IF closed_by = None THEN None ELSE Some("t3")>>,
                      <<"closed_by", closed_by>>, <<"labels", Some(labels)>>,
                      <<"milestone", milestone>>, <<"assignees", Some(assignees)>>,
                      <<"author", author>>, <<"assignee", assignee>>,
                      <<"has_tasks", Some(has_tasks)>>,
                      <<"task_completion_status", TaskCompletionStatus>>>>,
     notes |-> notes,
     awardemojis |-> awardemojis]

ChangeRecord(path) ==
    <<<<"old_path", Some(path)>>, <<"new_path", Some(path)>>,
      <<"new_file", Some(FALSE)>>>>

MergeRequestRecordOf(id, iid, source_branch, author, merged_by, assignees, assignee, labels, milestone, merge_commit_sha, sha, approved_by, changes, notes, awardemojis) ==
    [attributes |-> <<<<"id", Some(id)>>, <<"iid", Some(iid)>>,
                      <<"title", Some("m")>>, <<"state", Some("merged")>>,
                      <<"updated_at", Some("t2")>>,
                      <<"merged_by", merged_by>>, <<"closed_by", None>>,
                      <<"closed_at", None>>,
                      <<"source_branch", Some(source_branch)>>,
                      <<"author", author>>, <<"assignees", Some(assignees)>>,
                      <<"assignee", assignee>>, <<"labels", Some(labels)>>,
                      <<"milestone", milestone>>,
                      <<"merge_commit_sha", merge_commit_sha>>, <<"sha", sha>>,
                      <<"task_completion_status", TaskCompletionStatus>>>>,
     approvals |-> <<<<"approved_by", Some(approved_by)>>,
                     <<"approvals_required", Some(1)>>,
                     <<"approvals_left", Some(0)>>, <<"approved", Some(TRUE)>>>>,
     changes |-> [changes_count |-> Some(Len(changes)), merge_error |-> None,
                  changes |-> changes],
     notes |-> notes,
     awardemojis |-> awardemojis]

CommitRecordOf(id, author_name, committer_name, parent_ids) ==
    <<<<"id", Some(id)>>, <<"short_id", Some(id)>>, <<"title", Some("c")>>,
      <<"message", Some("c")>>, <<"author_name", author_name>>,
      <<"committer_name", committer_name>>, <<"parent_ids", Some(parent_ids)>>>>

\* user 1 is the one member of the project; user 3 is referenced, no member
Users == <<UserRecord(1, JaneDoe, "jd")>>

Labels == <<LabelRecord(1, <<"b">>)>>

Milestones == <<MilestoneRecord(1, 1)>>

ResolvedIssue(id, iid) ==
    IssueRecordOf(id, iid, Some(1), <<1>>, Some(1), Some(1), <<<<"b">>, <<"z">>>>,
                  Some(1), TRUE,
                  <<NoteRecord(id, Some(1), <<AwardEmojiRecord(id, Some(1))>>)>>,
                  <<AwardEmojiRecord(id + 2, Some(1))>>)

PlainIssue(id, iid, author, assignees, assignee, closed_by, notes, awardemojis) ==
    IssueRecordOf(id, iid, author, assignees, assignee, closed_by, <<>>, None,
                  FALSE, notes, awardemojis)

IssueLists ==
    { <<>>,
      <<ResolvedIssue(1, 42)>>,
      <<ResolvedIssue(1, 42), ResolvedIssue(2, 7)>>,
      <<PlainIssue(1, 42, Some(3), <<>>, None, None, <<>>, <<>>)>>,
      <<ResolvedIssue(2, 7),
        PlainIssue(1, 42, Some(1), <<3>>, Some(3), Some(3), <<>>, <<>>)>>,
      <<PlainIssue(1, 42, Some(1), <<>>, None, None,
                   <<NoteRecord(1, Some(3), <<>>)>>, <<>>),
        ResolvedIssue(2, 7)>>,
      <<PlainIssue(1, 42, Some(1), <<>>, None, None, <<>>,
                   <<AwardEmojiRecord(1, Some(3))>>)>>,
      <<PlainIssue(1, 42, Some(1), <<>>, None, None, <<>>,
                   [k \in 1..(per_page + 1) |-> AwardEmojiRecord(k, Some(1))])>> }

Branches ==
    { <<"4", "2", "-", "f">>, <<"7", "-", "x">>, <<"0", "7", "-", "x">>,
      <<"8", "-", "-">>, <<"f", "x">>, <<"4", "2", "-">>, <<"4", "2">>,
      <<"-", "x">>, <<"a", "7", "-", "x">>, <<"7", "a", "-", "x">> }

PlainMergeRequest(id, source_branch, assignee) ==
    MergeRequestRecordOf(id, id, source_branch, Some(1), None, <<>>, assignee,
                         <<>>, None, None, None, <<>>, <<ChangeRecord("f")>>,
                         <<>>, <<>>)

MergeRequestLists ==
    { <<PlainMergeRequest(1, b, Some(1))>> : b \in Branches }
    \cup
    { <<MergeRequestRecordOf(1, 1, <<"4", "2", "-", "f">>, Some(1), Some(3), <<1, 3>>,
                             Some(1), <<<<"b">>, <<"z">>>>, Some(2), Some("c1"),
                             Some("c2"), <<1>>,
                             <<ChangeRecord("f"), ChangeRecord("f")>>,
                             <<NoteRecord(5, Some(1),
                                          <<AwardEmojiRecord(5, Some(1))>>)>>,
                             <<AwardEmojiRecord(6, Some(1))>>),
        PlainMergeRequest(2, <<"7", "-", "x">>, None)>>,
      <<PlainMergeRequest(1, <<"4", "2", "-", "f">>, Some(3))>>,
      <<>> }

AuthorNames ==
    { Some(JaneDoe), Some(<<"S", " ", "D">>), Some(<<"X">>), Some(<<" ", " ">>),
      Some(<<"S", " ", "p">>), Some(<<"b">>), None }

CommitLists ==
    { <<CommitRecordOf("c1", a, Some(JaneDoe), <<"c0">>)>> : a \in AuthorNames }
    \cup
    { <<CommitRecordOf("c2", Some(JaneDoe), Some(<<"X">>), <<"c1">>),
        CommitRecordOf("c1", Some(JaneDoe), None, <<>>)>>,
      <<>> }

Sources ==
    [project : {ProjectRecord}, users : {Users}, labels : {Labels},
     milestones : {Milestones}, issues : IssueLists,
     merge_requests : MergeRequestLists, commits : CommitLists]

\* the optional sections of a valid configuration
Configs == {{}, {"IssuePipeline", "UserPipeline"}}

(***************************************************************************)
(* The configuration (g2g/helpers.py).  A configuration file is            *)
(* [exists, sections]: whether the path exists and, as configparser reads  *)
(* it, the options of each section.                                        *)
(***************************************************************************)
VALID_CONFIG ==
    << <<"GITLAB", <<"token">>>>,
       <<"NEO4J", <<"hostname", "protocol", "port", "db", "user", "password">>>>,
       <<"PROJECT", <<"project_id">>>> >>

RECURSIVE CheckParams(_, _, _)
\* for param in VALID_CONFIG[section]: raise if param not in config[section]
CheckParams(options, params, k) ==
    IF k > Len(params) THEN "none"
    ELSE IF params[k] \notin options THEN "Parameter is missing"
    ELSE CheckParams(options, params, k + 1)

RECURSIVE CheckSections(_, _)
\* for section in VALID_CONFIG.keys(): raise if the section is missing
CheckSections(sections, k) ==
    IF k > Len(VALID_CONFIG) THEN "none"
    ELSE IF VALID_CONFIG[k][1] \notin DOMAIN sections THEN "Section is missing"
    ELSE IF CheckParams(sections[VALID_CONFIG[k][1]], VALID_CONFIG[k][2], 1) # "none"
    THEN "Parameter is missing"
    ELSE CheckSections(sections, k + 1)

\* get_config checks the sections only
get_config_sections_only(file) ==
    IF ~file.exists \/ \E k \in 1..Len(VALID_CONFIG) :
                         VALID_CONFIG[k][1] \notin DOMAIN file.sections
    THEN [exc |-> "ConfigurationException", message |-> "invalid", config |-> None]
    ELSE [exc |-> "none", message |-> "none", config |-> Some(file.sections)]

\* get_config: the parsed configuration, or ConfigurationException
get_config(file) ==
    IF ~file.exists
    THEN [exc |-> "ConfigurationException", message |-> "not found",
          config |-> None]
    ELSE IF CheckSections(file.sections, 1) # "none"
    THEN [exc |-> "ConfigurationException",
          message |-> CheckSections(file.sections, 1), config |-> None]
    ELSE [exc |-> "none", message |-> "none", config |-> Some(file.sections)]

\* the sections of a configuration other than the required ones
OptionalSections(config) ==
    DOMAIN config \ {VALID_CONFIG[k][1] : k \in 1..Len(VALID_CONFIG)}

ExampleSections ==
    [GITLAB |-> {"token"},
     NEO4J |-> {"hostname", "protocol", "port", "db", "user", "password"},
     PROJECT |-> {"project_id"}]

\* the configuration files of the model: absent, complete (with and without
\* pipeline sections), one section missing, one parameter missing
ConfigFiles ==
    { [exists |-> FALSE, sections |-> [s \in {} |-> {}]],
      [exists |-> TRUE, sections |-> ExampleSections],
      [exists |-> TRUE,
       sections |-> ExampleSections @@ [IssuePipeline |-> {"test_attr"},
                                        UserPipeline |-> {"test_attr"}]],
      [exists |-> TRUE,
       sections |-> [GITLAB |-> {"token"}, PROJECT |-> {"project_id"}]],
      [exists |-> TRUE,
       sections |-> [ExampleSections EXCEPT !.NEO4J = @ \ {"port"}]],
      [exists |-> TRUE,
       sections |-> [ExampleSections EXCEPT !.PROJECT = {}]] }

(***************************************************************************)
(* The orchestrator (g2g/helpers.py): one run of process_pipelines after   *)
(* the other on the same sink and the same source data.                    *)
(***************************************************************************)
\* helpers.get_pipelines: one instance per entry of PIPELINES, in that order
\* the pipelines with a section in the configuration first, then the others
get_pipelines_configured_first(config) ==
    SelectSeq(PIPELINES, LAMBDA p : p \in config)
    \o SelectSeq(PIPELINES, LAMBDA p : p \notin config)

\* get_pipelines: one instance of each class of PIPELINES, whatever the config
get_pipelines(config) == PIPELINES

Ctx == [nodes |-> nodes, edges |-> edges, exc |-> "none", miss |-> FALSE,
        uuid |-> uuid]

\* a step whose exception is caught: the orchestrator goes on with the next step
Effect_resume(c, next) ==
    /\ nodes' = c.nodes
    /\ edges' = c.edges
    /\ uuid' = c.uuid
    /\ miss' = (miss \/ c.miss)
    /\ err' = c.exc
    /\ pc' = next

\* what a step leaves behind: the sink, and the run aborted if it raised
Effect(c, next) ==
    /\ nodes' = c.nodes
    /\ edges' = c.edges
    /\ uuid' = c.uuid
    /\ miss' = (miss \/ c.miss)
    /\ err' = c.exc
    /\ pc' = IF c.exc # "none" THEN [phase |-> "aborted", i |-> pc.i] ELSE next

Init ==
    /\ nodes = <<>>
    /\ edges = EmptyBag
    /\ constraints = {}
    /\ hist = <<>>
    /\ src \in Sources
    /\ argv = <<>>
    /\ cfg \in Configs
    /\ run = 0
    /\ pc = [phase |-> "start", i |-> 0]
    /\ pipes = <<>>
    /\ calls = <<>>
    /\ err = "none"
    /\ uuid = 0
    /\ miss = FALSE

\* gitlab2graph.py is started (again) with the configuration
StartRun ==
    /\ pc.phase \in {"start", "done", "aborted"}
    /\ run < MaxRuns
    /\ run' = run + 1
    /\ pc' = [phase |-> "build", i |-> 1]
    /\ pipes' = <<>>
    /\ calls' = <<>>
    /\ err' = "none"
    /\ miss' = FALSE
    /\ UNCHANGED <<nodes, edges, constraints, hist, src, argv, cfg, uuid>>

\* what Pipeline.__init__ leaves behind once _add_constraints has returned or
\* raised r = [c, constraints]: the instance exists only if nothing was raised
Constructed(full_name, obj, r, next) ==
    /\ calls' = Append(calls, <<"init", full_name>>)
    /\ Effect(r.c, next)
    /\ constraints' = r.constraints
    /\ pipes' = IF r.c.exc # "none" THEN pipes
                ELSE Append(pipes, [full_name |-> full_name,
                                    project_model |-> obj.node,
                                    data |-> None,
                                    model_list |-> <<>>])

\* the rest of Pipeline.__init__ within get_pipelines once _init_project has
\* returned s = [c, obj]
Built(full_name, s) ==
    Constructed(full_name, s.obj, add_constraints(s.c, constraints, full_name),
                IF pc.i < Len(get_pipelines(cfg))
                THEN [phase |-> "build", i |-> pc.i + 1]
                ELSE [phase |-> "request", i |-> 1])

\* Pipeline.__init__ of the pc.i-th pipeline of get_pipelines
BuildPipeline ==
    /\ pc.phase = "build"
    /\ Built(get_pipelines(cfg)[pc.i], init_project(Ctx, src.project))
    /\ UNCHANGED <<hist, src, argv, cfg, run>>

\* project.<resource>.list(all=True) of the pipeline
Listing(full_name) ==
    CASE full_name = "UserPipeline" -> src.users
      [] full_name = "LabelPipeline" -> src.labels
      [] full_name = "MilestonePipeline" -> src.milestones
      [] full_name = "IssuePipeline" -> src.issues
      [] full_name = "MergeRequestPipeline" -> src.merge_requests
      [] OTHER -> src.commits

\* a request_data that also registers the constraints of Project in the sink
RequestData_registering ==
    /\ pc.phase = "request"
    /\ calls' = Append(calls, <<"request_data", pipes[pc.i].full_name>>)
    /\ pipes' = [pipes EXCEPT ![pc.i].data = Some(Listing(pipes[pc.i].full_name))]
    /\ pc' = IF pc.i < Len(pipes) THEN [phase |-> "request", i |-> pc.i + 1]
             ELSE [phase |-> "transform", i |-> 1]
    /\ constraints' = set_constraints(constraints, "Project")
    /\ UNCHANGED <<nodes, edges, hist, src, argv, cfg, run, err, uuid, miss>>

\* request_data of the pc.i-th pipeline (first loop of process_pipelines)
RequestData ==
    /\ pc.phase = "request"
    /\ calls' = Append(calls, <<"request_data", pipes[pc.i].full_name>>)
    /\ pipes' = [pipes EXCEPT ![pc.i].data = Some(Listing(pipes[pc.i].full_name))]
    /\ pc' = IF pc.i < Len(pipes) THEN [phase |-> "request", i |-> pc.i + 1]
             ELSE [phase |-> "transform", i |-> 1]
    /\ UNCHANGED <<nodes, edges, constraints, hist, src, argv, cfg, run, err,
                   uuid, miss>>

\* transform_data of the pc.i-th pipeline (second loop), r its outcome
Transform(full_name, r) ==
    /\ calls' = Append(calls, <<"transform_data", full_name>>)
    /\ pipes' = [pipes EXCEPT ![pc.i].model_list = r.model_list]
    /\ Effect(r.c, [phase |-> "commit", i |-> pc.i])
    /\ UNCHANGED <<constraints, hist, src, argv, cfg, run>>

At(phase, full_name) ==
    /\ pc.phase = phase
    /\ pipes[pc.i].full_name = full_name

UserTransform ==
    /\ At("transform", "UserPipeline")
    /\ Transform("UserPipeline", UserPipeline_transform_data(Ctx, pipes[pc.i]))

LabelTransform ==
    /\ At("transform", "LabelPipeline")
    /\ Transform("LabelPipeline",
                 PlainPipeline_transform_data("Label", Ctx, pipes[pc.i]))

MilestoneTransform ==
    /\ At("transform", "MilestonePipeline")
    /\ Transform("MilestonePipeline",
                 PlainPipeline_transform_data("Milestone", Ctx, pipes[pc.i]))

IssueTransform ==
    /\ At("transform", "IssuePipeline")
    /\ Transform("IssuePipeline", IssuePipeline_transform_data(Ctx, pipes[pc.i]))

MergeRequestTransform ==
    /\ At("transform", "MergeRequestPipeline")
    /\ Transform("MergeRequestPipeline",
                 MergeRequestPipeline_transform_data(Ctx, pipes[pc.i]))

CommitTransform ==
    /\ At("transform", "CommitPipeline")
    /\ Transform("CommitPipeline", CommitPipeline_transform_data(Ctx, pipes[pc.i]))

\* commit_data of a pipeline has left c behind; hist keeps the sink as it is
\* after each commit_data
Committed(full_name, c) ==
    /\ calls' = Append(calls, <<"commit_data", full_name>>)
    /\ hist' = Append(hist, [run |-> run, full_name |-> full_name,
                             nodes |-> c.nodes, edges |-> c.edges, exc |-> c.exc])
    /\ Effect(c, IF pc.i < Len(pipes) THEN [phase |-> "transform", i |-> pc.i + 1]
                 ELSE [phase |-> "done", i |-> pc.i])

\* commit_data of the pc.i-th pipeline, right after its transform_data
CommitData ==
    /\ pc.phase = "commit"
    /\ Committed(pipes[pc.i].full_name, commit_data(Ctx, pipes[pc.i]))
    /\ UNCHANGED <<constraints, src, argv, cfg, run, pipes>>

Next ==
    \/ StartRun
    \/ BuildPipeline
    \/ RequestData
    \/ UserTransform
    \/ LabelTransform
    \/ MilestoneTransform
    \/ IssueTransform
    \/ MergeRequestTransform
    \/ CommitTransform
    \/ CommitData

Spec == Init /\ [][Next]_vars

(***************************************************************************)
(* The command line (gitlab2graph.py): the configuration files are         *)
(* validated and processed one after the other, on the same sink.          *)
(***************************************************************************)
MainSources ==
    {s \in Sources :
       /\ s.issues \in {<<>>, <<ResolvedIssue(1, 42)>>,
                        <<PlainIssue(1, 42, Some(3), <<>>, None, None, <<>>, <<>>)>>}
       /\ Len(s.merge_requests) # 1
       /\ s.commits \in {<<>>,
                         <<CommitRecordOf("c1", Some(<<" ", " ">>), Some(JaneDoe),
                                          <<"c0">>)>>,
                         <<CommitRecordOf("c2", Some(JaneDoe), Some(<<"X">>), <<"c1">>),
                           CommitRecordOf("c1", Some(JaneDoe), None, <<>>)>>}}

\* args.configuration is one file or more
MainInit ==
    /\ nodes = <<>>
    /\ edges = EmptyBag
    /\ constraints = {}
    /\ hist = <<>>
    /\ src \in MainSources
    /\ argv \in UNION {[1..n -> ConfigFiles] : n \in 1..MaxFiles}
    /\ cfg = {}
    /\ run = 0
    /\ pc = [phase |-> "start", i |-> 0]
    /\ pipes = <<>>
    /\ calls = <<>>
    /\ err = "none"
    /\ uuid = 0
    /\ miss = FALSE

\* cfg = get_config(config_filename) has returned or raised r
Configured(r) ==
    /\ err' = r.exc
    /\ IF r.exc # "none"
       THEN /\ pc' = [phase |-> "aborted", i |-> 0]
            /\ UNCHANGED cfg
       ELSE /\ pc' = [phase |-> "build", i |-> 1]
            /\ cfg' = OptionalSections(r.config[1])

\* the next configuration file of the loop over args.configuration
GetConfig ==
    /\ pc.phase \in {"start", "done"}
    /\ run < Len(argv)
    /\ run' = run + 1
    /\ Configured(get_config(argv[run + 1]))
    /\ pipes' = <<>>
    /\ calls' = <<>>
    /\ miss' = FALSE
    /\ UNCHANGED <<nodes, edges, constraints, hist, src, argv, uuid>>

MainNext ==
    \/ GetConfig
    \/ BuildPipeline
    \/ RequestData
    \/ UserTransform
    \/ LabelTransform
    \/ MilestoneTransform
    \/ IssueTransform
    \/ MergeRequestTransform
    \/ CommitTransform
    \/ CommitData

MainSpec == MainInit /\ [][MainNext]_vars

(***************************************************************************)
(* One pipeline instance on its own (test/g2g/test_pipelines.py): a class  *)
(* is constructed from a valid configuration, then request_data,           *)
(* transform_data and commit_data are called on the instance.              *)
(***************************************************************************)
UnitInit ==
    /\ nodes = <<>>
    /\ edges = EmptyBag
    /\ constraints = {}
    /\ hist = <<>>
    /\ src \in MainSources
    /\ argv = <<>>
    /\ cfg \in Configs
    /\ run = 1
    /\ pc = [phase |-> "construct", i |-> 1]
    /\ pipes = <<>>
    /\ calls = <<>>
    /\ err = "none"
    /\ uuid = 0
    /\ miss = FALSE

\* test_pipe = cls(test_config), cls the base class or a concrete class
UnitConstruct ==
    /\ pc.phase = "construct"
    /\ \E full_name \in {"Pipeline"} \cup {PIPELINES[k] : k \in 1..Len(PIPELINES)} :
         Constructed(full_name, init_project(Ctx, src.project).obj,
                     add_constraints(init_project(Ctx, src.project).c,
                                     constraints, full_name),
                     [phase |-> "request", i |-> 1])
    /\ UNCHANGED <<hist, src, argv, cfg, run>>

\* request_data, transform_data and commit_data of the base class
NotImplemented(step, next) ==
    /\ calls' = Append(calls, <<step, "Pipeline">>)
    /\ err' = "NotImplementedError"
    /\ pc' = [phase |-> next, i |-> pc.i]
    /\ UNCHANGED <<nodes, edges, constraints, hist, src, argv, cfg, run, pipes,
                   uuid, miss>>

\* test_pipe.request_data()
UnitRequest ==
    IF At("request", "Pipeline") THEN NotImplemented("request_data", "transform")
    ELSE RequestData

\* test_pipe.transform_data()
UnitTransform ==
    IF At("transform", "Pipeline") THEN NotImplemented("transform_data", "commit")
    ELSE \/ UserTransform
         \/ LabelTransform
         \/ MilestoneTransform
         \/ IssueTransform
         \/ MergeRequestTransform
         \/ CommitTransform

\* test_pipe.commit_data()
UnitCommit ==
    IF At("commit", "Pipeline") THEN NotImplemented("commit_data", "done")
    ELSE CommitData

UnitNext == UnitConstruct \/ UnitRequest \/ UnitTransform \/ UnitCommit

UnitSpec == UnitInit /\ [][UnitNext]_vars

(***************************************************************************)
(* Repository level: calls of create and get_or_create on one class, with  *)
(* attribute records drawn from a pool.                                    *)
(***************************************************************************)
Keys == 1..MaxKey

RecordPool ==
    UNION {{ <<<<"id", Some(k)>>, <<"created_at", Some("t1")>>,
               <<"updated_at", Some("t2")>>, <<"closed_at", Some("t3")>>>>,
             <<<<"id", Some(k)>>, <<"updated_at", Some("t2")>>,
               <<"closed_at", None>>>>,
             <<<<"id", Some(k)>>, <<"title", Some("x")>>,
               <<"closed_by", Some(k)>>, <<"merged_by", None>>,
               <<"web_url", Some("w")>>>> } : k \in Keys}
    \cup { <<>>, <<<<"title", Some("x")>>, <<"updated_at", Some("t2")>>>> }

\* the attributes arguments of get_or_create: omitted (None) or a record
OptionalRecords ==
    {None} \cup {Some(a) : a \in {<<>>} \cup {<<<<"id", Some(k)>>>> : k \in Keys}}

RepoInit ==
    /\ nodes = <<>>
    /\ edges = EmptyBag
    /\ constraints = {}
    /\ \E cls \in Types : hist = <<[op |-> "class", cls |-> cls, calls |-> 0]>>
    /\ src = [project |-> ProjectRecord]
    /\ argv = <<>>
    /\ cfg = {}
    /\ run = 0
    /\ pc = [phase |-> "repository", i |-> 0]
    /\ pipes = <<>>
    /\ calls = <<>>
    /\ err = "none"
    /\ uuid = 0
    /\ miss = FALSE

RepoClass == hist[1].cls

\* hist keeps the class, the number of calls made and the last two calls
Remember(call) ==
    hist' = <<[hist[1] EXCEPT !.calls = @ + 1]>>
            \o SubSeq(hist, IF Len(hist) = 1 THEN 2 ELSE Len(hist), Len(hist))
            \o <<call>>

\* a call that returned r: the sink afterwards, and the call remembered
Called(call, r) ==
    /\ nodes' = r.nodes
    /\ Remember(call @@ [before |-> nodes, exc |-> r.exc, obj |-> r.obj])

RepoCreate ==
    /\ hist[1].calls < MaxOps
    /\ \E attributes \in RecordPool :
         Called([op |-> "create", attributes |-> attributes],
                create(RepoClass, nodes, attributes))
    /\ UNCHANGED <<edges, constraints>>
    /\ UNCHANGED orch

RepoGetOrCreate ==
    /\ hist[1].calls < MaxOps
    /\ \E pk \in {None} \cup {Some(k) : k \in Keys}, attributes \in OptionalRecords :
         Called([op |-> "get_or_create", pk |-> pk, attributes |-> attributes],
                get_or_create(RepoClass, nodes, pk, attributes))
    /\ UNCHANGED <<edges, constraints>>
    /\ UNCHANGED orch

RepoNext == RepoCreate \/ RepoGetOrCreate

RepoSpec == RepoInit /\ [][RepoNext]_vars

\* the last call and the one before it
LastCall == hist[Len(hist)]

PrevCall == hist[Len(hist) - 1]

Made(call, op) == call.op = op

(***************************************************************************)
(* Claims about the graph repository, checked under RepoSpec.              *)
(***************************************************************************)
\* the nodes of a class that carry the primary-key value k
WithKey(ns, cls, k) ==
    {i \in 1..Len(ns) : /\ ns[i].label = cls
                        /\ "id" \in DOMAIN ns[i].props
                        /\ ns[i].props["id"] = k}

\* the last two calls are get_or_create(cls, k) with the same key k
TwiceInARow ==
    /\ Len(hist) = 3
    /\ Made(PrevCall, "get_or_create") /\ Made(LastCall, "get_or_create")
    /\ PrevCall.pk # None /\ LastCall.pk = PrevCall.pk
    /\ PrevCall.attributes = None /\ LastCall.attributes = None

\* C4: get_or_create(type, k) twice in a row returns the same node both
\* times; the first call creates a node only if none with key k exists, the
\* second call writes nothing, and exactly one node of the type has key k.
C4_GetOrCreateTwice ==
    TwiceInARow =>
        LET k == PrevCall.pk[1]
            existed == WithKey(PrevCall.before, RepoClass, k) # {}
        IN  /\ PrevCall.exc = "none" /\ LastCall.exc = "none"
            /\ PrevCall.obj # 0 /\ LastCall.obj = PrevCall.obj
            /\ existed => LastCall.before = PrevCall.before
            /\ ~existed => /\ Len(LastCall.before) = Len(PrevCall.before) + 1
                           /\ SubSeq(LastCall.before, 1, Len(PrevCall.before))
                                  = PrevCall.before
            /\ nodes = LastCall.before
            /\ Cardinality(WithKey(nodes, RepoClass, k)) = 1

\* both cases of C4 in one run: two calls on a key that a create wrote before
C4_Witness ==
    /\ TwiceInARow
    /\ WithKey(PrevCall.before, RepoClass, PrevCall.pk[1]) # {}
    /\ Len(nodes) = 1 /\ DOMAIN nodes[1].props # {"id"}

OwnNames(cls, attributes) ==
    [p \in {a \in ScalarAttrs(cls) : Get(attributes, a) # None}
        |-> Get(attributes, p)[1]]

\* C10: the node written by create stores each declared scalar attribute of
\* the record under its own name with its own value, nothing for other
\* fields, and leaves declared properties absent from the record unset.
C10_CreateStoresOwnNames ==
    (Made(LastCall, "create") /\ LastCall.exc = "none") =>
        nodes[LastCall.obj].props = OwnNames(RepoClass, LastCall.attributes)

(***************************************************************************)
(* Claims about the orchestrator and the pipelines, checked under Spec.    *)
(***************************************************************************)
\* the six pipelines in the order the documentation gives
DeclaredOrder ==
    <<"UserPipeline", "LabelPipeline", "MilestonePipeline", "IssuePipeline",
      "MergeRequestPipeline", "CommitPipeline">>

\* the calls of one complete run: six constructions, six request_data, then
\* transform_data and commit_data of each pipeline in turn
ExpectedCalls ==
    [i \in 1..6 |-> <<"init", DeclaredOrder[i]>>]
    \o [i \in 1..6 |-> <<"request_data", DeclaredOrder[i]>>]
    \o [i \in 1..12 |-> <<IF i % 2 = 1 THEN "transform_data" ELSE "commit_data",
                          DeclaredOrder[(i + 1) \div 2]>>]

Commits(full_name, r) ==
    {h \in {hist[i] : i \in 1..Len(hist)} :
        h.run = r /\ h.full_name = full_name /\ h.exc = "none"}

NodesOf(ns, label) == {i \in 1..Len(ns) : ns[i].label = label}

\* the relationships of the given types that start at an Issue node
IssueEdges(h, types) ==
    {e \in DOMAIN h.edges : e[2] \in types /\ e[1] \in NodesOf(h.nodes, "Issue")}

\* C2: after the Issue pipeline has run twice on the same source data, the
\* sink holds as many Issue nodes as after the first run, and at most one
\* HAS_LABEL, HAS_MILESTONE and CREATED_BY edge between an Issue and a target.
C2_IssuePipelineTwice ==
    \A first \in Commits("IssuePipeline", 1), second \in Commits("IssuePipeline", 2) :
        /\ Cardinality(NodesOf(second.nodes, "Issue"))
               = Cardinality(NodesOf(first.nodes, "Issue"))
        /\ \A e \in IssueEdges(second, {"HAS_LABEL", "HAS_MILESTONE", "CREATED_BY"}) :
               second.edges[e] <= 1

\* two runs of the Issue pipeline on two issues that each have a label, a
\* milestone and an author
C2_Witness ==
    \E first \in Commits("IssuePipeline", 1), second \in Commits("IssuePipeline", 2) :
        /\ Cardinality(NodesOf(first.nodes, "Issue")) = 2
        /\ \A i \in NodesOf(second.nodes, "Issue") :
               \A type \in {"HAS_LABEL", "HAS_MILESTONE", "CREATED_BY"} :
                   Related(second.edges, i, type) # {}

\* C3: in every reachable state no two nodes of the same type share a
\* primary-key value; this holds for the Project node written by every
\* pipeline construction and for nodes first written as stubs by
\* get_or_create and later by create from their full record.
C3_PrimaryKeyUnique ==
    \A i, j \in 1..Len(nodes) :
        (/\ i # j
         /\ nodes[i].label = nodes[j].label
         /\ "id" \in DOMAIN nodes[i].props
         /\ "id" \in DOMAIN nodes[j].props) => nodes[i].props["id"] # nodes[j].props["id"]

\* the second run is over: the Project was written twelve times, and a Commit
\* that a merge request referenced by sha holds its full record
C3_Witness ==
    /\ run = 2 /\ pc.phase = "done"
    /\ Cardinality(NodesOf(nodes, "Project")) = 1
    /\ \E e \in DOMAIN edges :
          /\ e[2] = "HAS_MERGE_COMMIT"
          /\ nodes[e[3]].label = "Commit"
          /\ "title" \in DOMAIN nodes[e[3]].props
    /\ \E e \in DOMAIN edges :
          /\ e[2] = "HAS_PARENT"
          /\ "title" \in DOMAIN nodes[e[3]].props

\* the lengths k of a prefix of digits of the branch that a hyphen and at
\* least one further character follow
IssuePrefixes(branch) ==
    {k \in 1..Len(branch) : /\ \A j \in 1..k : IsDigit(branch[j])
                            /\ Len(branch) >= k + 2
                            /\ branch[k + 1] = "-"}

\* the integer a text of digits denotes
NumberOf(digits) ==
    LET n == Len(digits)
        S[j \in 0..n] == IF j = 0 THEN 0
                         ELSE S[j - 1] + DigitValue(digits[j]) * 10 ^ (n - j)
    IN  S[n]

\* the Issue nodes the branch of a merge request names
IssuesNamed(ns, branch) ==
    {i \in NodesOf(ns, "Issue") :
        /\ "iid" \in DOMAIN ns[i].props
        /\ \E k \in IssuePrefixes(branch) :
              ns[i].props["iid"] = NumberOf(SubSeq(branch, 1, k))}

\* linked is what C6 allows for a merge request with the branch
AsBranchSays(ns, branch, linked) ==
    IF IssuesNamed(ns, branch) = {} THEN linked = {}
    ELSE linked # {} /\ linked \subseteq IssuesNamed(ns, branch)

\* the issues a merge request model is related to once transform_data is done
IsRelated(obj) ==
    IF "is_related" \in DOMAIN obj.rel THEN obj.rel["is_related"]
    ELSE Related(edges, obj.node, "IS_RELATED")

\* C6: a merge request gets an IS_RELATED edge if and only if its source
\* branch is one or more digits, a hyphen and at least one further character
\* and an Issue node with that number as iid exists; the edge goes to that
\* Issue.  Otherwise there is no IS_RELATED edge, and no error is raised.
C6_RelatedIssueFromBranch ==
    /\ (pc.phase = "commit" /\ pipes[pc.i].full_name = "MergeRequestPipeline") =>
          \A m \in 1..Len(pipes[pc.i].model_list) :
              LET obj == pipes[pc.i].model_list[m]
              IN  AsBranchSays(nodes, obj.props["source_branch"], IsRelated(obj))
    /\ \A h \in Commits("MergeRequestPipeline", 1) \cup Commits("MergeRequestPipeline", 2) :
          \A m \in NodesOf(h.nodes, "MergeRequest") :
              AsBranchSays(h.nodes, h.nodes[m].props["source_branch"],
                           Related(h.edges, m, "IS_RELATED"))
    /\ (pc.phase = "aborted" /\ pipes[pc.i].full_name = "MergeRequestPipeline") => miss

\* the merge request pipeline has committed a merge request of branch 42-f
\* related to the issue with iid 42, and one of branch 7-x related to none
C6_Witness ==
    \E h \in Commits("MergeRequestPipeline", 1) :
        \E m, n \in NodesOf(h.nodes, "MergeRequest") :
            /\ h.nodes[m].props["source_branch"] = <<"4", "2", "-", "f">>
            /\ \E i \in Related(h.edges, m, "IS_RELATED") : h.nodes[i].props["iid"] = 42
            /\ h.nodes[n].props["source_branch"] = <<"7", "-", "x">>
            /\ Related(h.edges, n, "IS_RELATED") = {}

\* C7: the author and the committer of a commit are looked up by full name,
\* then by the last token of the name; when both lookups find nothing there
\* is no edge and no error, for every possible name value.
C7_FuzzyMatchNeverRaises ==
    (pc.phase = "aborted" /\ pipes[pc.i].full_name = "CommitPipeline") =>
        err # "IndexError"

\* C8: every IS_AUTHOR and IS_COMMITTER edge ends at a User node.
C8_AuthorIsUser ==
    \A e \in DOMAIN edges :
        e[2] \in {"IS_AUTHOR", "IS_COMMITTER"} => nodes[e[3]].label = "User"

\* C9: a user reference of an issue or a merge request that no User node
\* answers is skipped: transform_data and the commit_data after it return
\* without raising.
C9_UnresolvedUserSkipped ==
    (/\ miss
     /\ pc.phase \in {"commit", "transform", "done", "aborted"}
     /\ pipes[pc.i].full_name \in {"IssuePipeline", "MergeRequestPipeline"})
    => err = "none"

(***************************************************************************)
(* Claims about the uniqueness constraints, checked under Spec.            *)
(***************************************************************************)
\* the uniqueness constraints a class declares, as the sink registers them
ConstraintsOf(cls) ==
    {<<cls, unique_constraints(cls)[k]>> : k \in 1..Len(unique_constraints(cls))}

\* C11: for every entity type of which the sink holds a node, the
\* uniqueness constraint of every key of the type's uniqueness set is
\* registered in the sink, so that no node of a type is written before the
\* constraints of that type are registered.
C11_ConstraintsBeforeNodes ==
    \A i \in 1..Len(nodes) : ConstraintsOf(nodes[i].label) \subseteq constraints

(***************************************************************************)
(* Claims about the configuration files, checked under MainSpec.           *)
(***************************************************************************)
\* the keys each required section must hold
RequiredKeys ==
    [GITLAB |-> {"token"},
     NEO4J |-> {"hostname", "protocol", "port", "db", "user", "password"},
     PROJECT |-> {"project_id"}]

\* the file exists and every required section holds every required key
Complete(file) ==
    /\ file.exists
    /\ \A s \in DOMAIN RequiredKeys :
         s \in DOMAIN file.sections /\ RequiredKeys[s] \subseteq file.sections[s]

C13_OtherFilesProcessed ==
    (pc.phase = "aborted" /\ err = "ConfigurationException")
    => \A i \in (run + 1)..Len(argv) : ~Complete(argv[i])

\* every node of ns is a node of ms, with its label and primary key
KeptNodes(ns, ms) ==
    /\ Len(ms) >= Len(ns)
    /\ \A i \in 1..Len(ns) : /\ ms[i].label = ns[i].label
                             /\ ms[i].props["id"] = ns[i].props["id"]

\* every edge of es is an edge of fs
KeptEdges(es, fs) ==
    \A e \in DOMAIN es : es[e] > 0 => (e \in DOMAIN fs /\ fs[e] >= es[e])

\* C14: when a pipeline step (init, request_data, transform_data or
\* commit_data) raises, the batch stops there without compensation: no step
\* is taken once an exception was raised (neither the commit of the failing
\* pipeline, nor a step of a later pipeline, nor a later configuration
\* file), and every node and edge written before the failure is still in
\* the sink afterwards.
C14_FailureStopsBatch ==
    [][/\ err = "none"
       /\ err' # "none" => KeptNodes(nodes, nodes') /\ KeptEdges(edges, edges')]_vars

\* transform_data of a pipeline has raised after nodes were written, its
\* commit_data was not called, and a complete configuration file was still
\* to come
C14_Witness ==
    /\ pc.phase = "aborted"
    /\ err \notin {"none", "ConfigurationException"}
    /\ calls # <<>> /\ calls[Len(calls)][1] = "transform_data"
    /\ nodes # <<>> /\ BagCardinality(edges) > 0
    /\ run < Len(argv) /\ Complete(argv[run + 1])

(***************************************************************************)
(* Claims about the steps of a pipeline, checked under Spec.               *)
(***************************************************************************)
\* the records the source API lists for a pipeline class
ListedFor(full_name) ==
    CASE full_name = "UserPipeline" -> src.users
      [] full_name = "LabelPipeline" -> src.labels
      [] full_name = "MilestonePipeline" -> src.milestones
      [] full_name = "IssuePipeline" -> src.issues
      [] full_name = "MergeRequestPipeline" -> src.merge_requests
      [] full_name = "CommitPipeline" -> src.commits

\* C15: request_data of every concrete pipeline only stores the listed raw
\* records (users, milestones, labels, issues, merge requests, commits) in
\* the instance: the sink's nodes, edges and constraints and the model list
\* of every pipeline are as before, and so is every other pipeline instance.
C15_RequestDataFrame ==
    [][pc.phase = "request" =>
         /\ nodes' = nodes /\ edges' = edges /\ constraints' = constraints
         /\ Len(pipes') = Len(pipes)
         /\ \A i \in 1..Len(pipes) :
              /\ pipes'[i].model_list = pipes[i].model_list
              /\ i # pc.i => pipes'[i] = pipes[i]
         /\ pipes'[pc.i].data = Some(ListedFor(pipes[pc.i].full_name))]_vars

\* all six request_data calls of a run were made on a sink that holds nodes,
\* and issues, merge requests and commits were listed
C15_Witness ==
    /\ pc = [phase |-> "transform", i |-> 1]
    /\ nodes # <<>>
    /\ \A i \in 1..Len(pipes) : pipes[i].data # None
    /\ \A i \in 4..6 : pipes[i].data[1] # <<>>

\* the entity type a pipeline class writes
EntityOf(full_name) ==
    CASE full_name = "UserPipeline" -> "User"
      [] full_name = "LabelPipeline" -> "Label"
      [] full_name = "MilestonePipeline" -> "Milestone"
      [] full_name = "IssuePipeline" -> "Issue"
      [] full_name = "MergeRequestPipeline" -> "MergeRequest"
      [] full_name = "CommitPipeline" -> "Commit"

\* the primary key of a raw record of a pipeline
RecordKey(full_name, record) ==
    IF full_name \in {"IssuePipeline", "MergeRequestPipeline"}
    THEN Get(record.attributes, "id")[1]
    ELSE Get(record, "id")[1]

\* the last call made on a pipeline in this run
LastCallIs(step, full_name) ==
    calls # <<>> /\ calls[Len(calls)] = <<step, full_name>>

\* the model list holds one node per raw record, in the order of the records
OnePerRecord(pipe) ==
    /\ Len(pipe.model_list) = Len(pipe.data[1])
    /\ \A k \in 1..Len(pipe.model_list) :
         /\ nodes[pipe.model_list[k].node].label = EntityOf(pipe.full_name)
         /\ nodes[pipe.model_list[k].node].props["id"]
              = RecordKey(pipe.full_name, pipe.data[1][k])

\* every relationship attached to a model of the list is an edge of the sink
EdgesPushed(pipe) ==
    \A k \in 1..Len(pipe.model_list) :
      \A a \in DOMAIN pipe.model_list[k].rel :
        \A b \in pipe.model_list[k].rel[a] :
          /\ <<pipe.model_list[k].node, RelType(a), b>> \in DOMAIN edges
          /\ edges[<<pipe.model_list[k].node, RelType(a), b>>] = 1

\* C16: each concrete pipeline starts with no raw records and an empty
\* model list; once transform_data was called the model list holds exactly
\* one node per raw record, in source-list order; once commit_data was
\* called every accumulated node was pushed, so that every relationship
\* edge attached during transform is in the sink.
C16_OneModelPerRecord ==
    /\ pc.phase = "request" =>
         \A i \in 1..Len(pipes) :
           /\ pipes[i].model_list = <<>>
           /\ i >= pc.i => pipes[i].data = None
    /\ \A i \in 1..Len(pipes) :
         /\ LastCallIs("transform_data", pipes[i].full_name) => OnePerRecord(pipes[i])
         /\ LastCallIs("commit_data", pipes[i].full_name) =>
              OnePerRecord(pipes[i]) /\ EdgesPushed(pipes[i])


(***************************************************************************)
(* C17: constructing the base Pipeline class with a valid configuration    *)
(* completes and leaves an instance whose name is "Pipeline"; every        *)
(* request_data, transform_data and commit_data called on that instance    *)
(* afterwards raises NotImplementedError.                                  *)
(***************************************************************************)
C17_BasePipelineConstructs ==
    (calls # <<>> /\ calls[1] = <<"init", "Pipeline">>)
        => /\ Len(pipes) = 1
           /\ pipes[1].full_name = "Pipeline"
           /\ IF Len(calls) = 1 THEN err = "none"
              ELSE err = "NotImplementedError"

\* the attribute dictionary of a raw record of a pipeline
RecordAttributes(full_name, record) ==
    IF full_name \in {"IssuePipeline", "MergeRequestPipeline"}
    THEN record.attributes
    ELSE record

\* the node's properties hold each of the given properties with its value
Carries(props, own) ==
    \A p \in DOMAIN own : p \in DOMAIN props /\ props[p] = own[p]

\* the nodes of the j-th commit that existed before its pipeline processed
\* the full record of their key carry what that record declares
UpdatedInPlace(j, full_name, attributes) ==
    WithKey(hist[j - 1].nodes, EntityOf(full_name), Get(attributes, "id")[1]) # {}
        => \A n \in WithKey(hist[j].nodes, EntityOf(full_name),
                            Get(attributes, "id")[1]) :
               Carries(hist[j].nodes[n].props,
                       OwnNames(EntityOf(full_name), attributes))

(***************************************************************************)
(* C18: a node that is in the sink before its own pipeline processes its   *)
(* full record (a stub of get_or_create or a node of an earlier run)       *)
(* carries, after that pipeline's commit, the declared scalar properties   *)
(* of the full record.                                                     *)
(***************************************************************************)
C18_StubUpdatedInPlace ==
    \A j \in 2..Len(hist) :
        hist[j].exc = "none" =>
            \A k \in 1..Len(ListedFor(hist[j].full_name)) :
                UpdatedInPlace(j, hist[j].full_name,
                               RecordAttributes(hist[j].full_name,
                                                ListedFor(hist[j].full_name)[k]))

(***************************************************************************)
(* C19: get_or_create with a key k that is not None returns a node whose   *)
(* primary key is k, whatever the attribute record holds, also a value of  *)
(* its own for the primary key; with k None it raises                      *)
(* NeoGraphObjectException and writes nothing.                             *)
(***************************************************************************)
C19_GetOrCreateKeepsKey ==
    Made(LastCall, "get_or_create") =>
        IF LastCall.pk = None
        THEN /\ LastCall.exc = "NeoGraphObjectException"
             /\ nodes = LastCall.before
        ELSE /\ LastCall.exc = "none"
             /\ LastCall.obj \in WithKey(nodes, RepoClass, LastCall.pk[1])

\* the change records of all merge requests of the source, each by the place
\* of its merge request and its own place
ChangeRecords ==
    UNION {{<<m, k>> : k \in 1..Len(src.merge_requests[m].changes.changes)} :
              m \in 1..Len(src.merge_requests)}

\* the j-th commit is a complete run of the MergeRequest pipeline, and so was
\* that pipeline's run in every run of the program before
CompleteRuns(j) ==
    /\ hist[j].full_name = "MergeRequestPipeline"
    /\ hist[j].exc = "none"
    /\ \A r \in 1..hist[j].run : Commits("MergeRequestPipeline", r) # {}

\* no two Change nodes have the same key
FreshKeys(ns) ==
    \A a, b \in NodesOf(ns, "Change") :
        a # b => ns[a].props["id"] # ns[b].props["id"]

(***************************************************************************)
(* C20: every change record of every merge request becomes a Change node   *)
(* of its own under a key no other Change node has, also when change       *)
(* records share their paths; after n complete runs of the MergeRequest    *)
(* pipeline over a source of c change records the sink holds n*c Change    *)
(* nodes.                                                                  *)
(***************************************************************************)
C20_ChangePerRecord ==
    \A j \in 1..Len(hist) :
        CompleteRuns(j) =>
            /\ FreshKeys(hist[j].nodes)
            /\ Cardinality(NodesOf(hist[j].nodes, "Change"))
                   = hist[j].run * Cardinality(ChangeRecords)

\* the second complete run over a source with change records of the same
\* paths, within one merge request and across merge requests
C20_Witness ==
    \E j \in 1..Len(hist) :
        /\ CompleteRuns(j)
        /\ hist[j].run = 2
        /\ Cardinality(ChangeRecords) = 3
        /\ \A a, b \in NodesOf(hist[j].nodes, "Change") :
               hist[j].nodes[a].props["old_path"] = hist[j].nodes[b].props["old_path"]

\* a node of class cls with key k has an edge of the type to a node of class
\* child with key ck
HasChild(h, cls, k, type, child, ck) ==
    \E a \in WithKey(h.nodes, cls, k), b \in WithKey(h.nodes, child, ck) :
        b \in Related(h.edges, a, type)

\* every award emoji the source holds for the owner is linked from it
EmojisLinked(h, cls, k, awardemojis) ==
    \A e \in 1..Len(awardemojis) :
        HasChild(h, cls, k, "WAS_AWARDED_WITH", "AwardEmoji", awardemojis[e].id[1])

\* every note and award emoji the source holds for the record is linked
NestedLinked(h, cls, record) ==
    /\ \A n \in 1..Len(record.notes) :
         /\ HasChild(h, cls, Get(record.attributes, "id")[1], "HAS_NOTE", "Note",
                     record.notes[n].id[1])
         /\ EmojisLinked(h, "Note", record.notes[n].id[1],
                         record.notes[n].awardemojis)
    /\ EmojisLinked(h, cls, Get(record.attributes, "id")[1], record.awardemojis)

(***************************************************************************)
(* C21: once the Issue and the MergeRequest pipeline of a run have         *)
(* committed without error, every note the source holds for an issue or a  *)
(* merge request is a Note node with a HAS_NOTE edge from its parent, and  *)
(* every award emoji of a note, an issue or a merge request an AwardEmoji  *)
(* node with a WAS_AWARDED_WITH edge from its parent, however many the     *)
(* parent has.                                                             *)
(***************************************************************************)
C21_NestedListingsComplete ==
    \A j \in 1..Len(hist) :
        (/\ hist[j].full_name = "MergeRequestPipeline"
         /\ hist[j].exc = "none"
         /\ Commits("IssuePipeline", hist[j].run) # {})
        => /\ \A i \in 1..Len(src.issues) :
                NestedLinked(hist[j], "Issue", src.issues[i])
           /\ \A m \in 1..Len(src.merge_requests) :
                NestedLinked(hist[j], "MergeRequest", src.merge_requests[m])
=============================================================================
